---------------------------- MODULE Spec2Model ----------------------------
(***************************************************************************)
(* Model of the box-office sheet updater (src/main.py).                    *)
(*                                                                         *)
(* One synchronization run is main(): it reads the watermark from the raw  *)
(* tab (the ledger), scrapes the missing days one request at a time,       *)
(* appends the rows in batches and rewrites the leaderboard tab.  Every    *)
(* call to the outside (one HTTP request, one append of a batch, one write *)
(* to the leaderboard tab) is one step of the model, because each of them  *)
(* can raise and end the run there.                                        *)
(*                                                                         *)
(* Conventions of the model:                                               *)
(*  - a text is a sequence of one-character strings, so that strip(),      *)
(*    replace() and the parsers are computed character by character;       *)
(*  - a calendar date is a day number; year y holds the days               *)
(*    (y-1)*DaysPerYear+1 .. y*DaysPerYear.  The text strftime() writes is *)
(*    the pair <<year, day of the year>>, and strptime() reads it back;    *)
(*  - time.sleep() delays are counted in tenths of a second;               *)
(*  - a sheet keeps a cell as it was entered; of a ledger row the model    *)
(*    keeps the columns date, title and revenue (theaters and distributor  *)
(*    are never read back by the program).                                 *)
(***************************************************************************)
EXTENDS Integers, Sequences, FiniteSets, TLC

(***************************************************************************)
(* Bounds of the model.                                                    *)
(***************************************************************************)
NumYears == 2
DaysPerYear == 2
MaxBatch == 2
MaxRuns == 2
MaxRetriesBound == 13
MaxTitles == 52
MaxMoneyLen == 3

VARIABLES
    source,        \* which data set the site serves (fixed during a behaviour)
    MAX_RETRIES,   \* configuration, main.py:28
    today,         \* dt.date.today()
    raw,           \* rows of the raw tab, the header row included
    leader,        \* cells of the leaderboard tab
    pc,            \* where main() stands
    YEAR,          \* configuration of the run, main.py:18
    REBUILD,       \* configuration of the run, main.py:23
    APPEND_BATCH_SIZE, \* configuration of the run, main.py:24
    max_date,      \* main(): the watermark read by the run
    start,         \* main(): first date of the scrape window
    effective_end, \* main(): last date of the scrape window
    d,             \* scrape_year(): the date being fetched
    attempt,       \* fetch_daily_table(): the attempt being made
    frames,        \* scrape_year(): rows fetched so far
    i,             \* append_rows_batched(): offset of the next chunk
    added,         \* append_rows_batched(): rows appended by the run
    df_all,        \* main(): the records handed to write_leaderboard
    \* history of the run, kept for the properties
    raw0,          \* the raw tab when the run started
    leader0,       \* the leaderboard tab when the run started
    repeat,        \* the run repeats a completed run: same year, same day
    delays,        \* backoff delays slept by the fetch of d (until scrape_year returns)
    requests,      \* requests issued by the fetch of d (until scrape_year returns)
    reqDates,      \* dates requested by the run
    fetched,       \* dates whose fetch succeeded in the run, in order
    slept,         \* the delay slept after the last request of the run, 0 before it
    yearsRun,      \* target years of the runs so far
    runs           \* number of runs started

vars == <<source, MAX_RETRIES, today, raw, leader, pc, YEAR, REBUILD,
          APPEND_BATCH_SIZE, max_date, start, effective_end, d, attempt,
          frames, i, added, df_all, raw0, leader0, repeat, delays, requests,
          reqDates, fetched, slept, yearsRun, runs>>

\* Optional[dt.date]: None is the empty sequence, a date the sequence of it
None == <<>>
Some(x) == <<x>>
NA == <<"NaN">>

Min(a, b) == IF a <= b THEN a ELSE b
Max(a, b) == IF a >= b THEN a ELSE b

(***************************************************************************)
(* Texts.                                                                  *)
(***************************************************************************)
\* The characters of the model, in code point order.
Alphabet == <<" ", "$", ",", "-", ".", "/",
              "0", "1", "2", "3", "4", "5", "6", "7", "8", "9",
              "A", "B", "C", "D", "E", "F", "G", "H", "N", "a", "b", "n">>

Ord(c) == CHOOSE k \in 1..Len(Alphabet) : Alphabet[k] = c

Digits == <<"0", "1", "2", "3", "4", "5", "6", "7", "8", "9">>

IsDigit(c) == \E k \in 1..10 : Digits[k] = c

DigitVal(c) == (CHOOSE k \in 1..10 : Digits[k] = c) - 1

\* str < str of Python: by code point, a proper prefix first.
RECURSIVE StrLess(_, _)
StrLess(s, t) ==
    IF t = <<>> THEN FALSE
    ELSE IF s = <<>> THEN TRUE
    ELSE IF Head(s) = Head(t) THEN StrLess(Tail(s), Tail(t))
    ELSE Ord(Head(s)) < Ord(Head(t))

RECURSIVE LStrip(_)
LStrip(s) == IF s # <<>> /\ Head(s) = " " THEN LStrip(Tail(s)) ELSE s

RECURSIVE RStrip(_)
RStrip(s) ==
    IF s # <<>> /\ s[Len(s)] = " " THEN RStrip(SubSeq(s, 1, Len(s) - 1)) ELSE s

\* str.strip()
Strip(s) == RStrip(LStrip(s))

\* str.replace(c, "")
Remove(s, c) == SelectSeq(s, LAMBDA x : x # c)

RECURSIVE DigitsVal(_)
DigitsVal(s) ==
    IF s = <<>> THEN 0 ELSE 10 * DigitsVal(SubSeq(s, 1, Len(s) - 1)) + DigitVal(s[Len(s)])

AllDigits(s) == \A k \in 1..Len(s) : IsDigit(s[k])

RECURSIVE NatToStr(_)
NatToStr(n) ==
    IF n < 10 THEN <<Digits[n + 1]>> ELSE NatToStr(n \div 10) \o <<Digits[(n % 10) + 1]>>

\* str(n) of an int
IntToStr(n) == IF n < 0 THEN <<"-">> \o NatToStr(-n) ELSE NatToStr(n)

(***************************************************************************)
(* Normalization of one scraped cell (main.py:87-99, 170).                 *)
(***************************************************************************)
Unsigned(s) == IF s # <<>> /\ Head(s) = "-" THEN Tail(s) ELSE s

DotAt(s) == IF \E k \in 1..Len(s) : s[k] = "."
            THEN CHOOSE k \in 1..Len(s) : s[k] = "." /\ \A j \in 1..(k - 1) : s[j] # "."
            ELSE 0

IntPart(s) == IF DotAt(s) = 0 THEN s ELSE SubSeq(s, 1, DotAt(s) - 1)

FracPart(s) == IF DotAt(s) = 0 THEN <<>> ELSE SubSeq(s, DotAt(s) + 1, Len(s))

\* float(s) accepts s: an optional sign, then digits with at most one point.
FloatOk(s) ==
    LET u == Unsigned(s)
    IN  /\ AllDigits(IntPart(u))
        /\ AllDigits(FracPart(u))
        /\ Len(IntPart(u)) + Len(FracPart(u)) > 0

\* int(float(s)): the fraction is cut off, the sign kept.
IntOfFloat(s) ==
    LET u == Unsigned(s)
        n == DigitsVal(IntPart(u))
    IN  IF u # s THEN -n ELSE n

_parse_money(s) ==
    IF s = NA THEN 0
    ELSE LET t == Strip(s)
         IN  IF t = <<>> \/ t = <<"-">> \/ t = <<"N", "/", "A">> THEN 0
             ELSE LET u == Remove(Remove(t, "$"), ",")
                  IN  IF FloatOk(u) THEN IntOfFloat(u) ELSE 0

\* df["title"].astype(str).str.strip()
NormTitle(s) == IF s = NA THEN <<"n", "a", "n">> ELSE Strip(s)

(***************************************************************************)
(* Calendar.                                                               *)
(***************************************************************************)
Years == 1..NumYears
Dates == 1..(NumYears * DaysPerYear)

year_start(y) == (y - 1) * DaysPerYear + 1
year_end(y) == y * DaysPerYear

YearOf(date) == ((date - 1) \div DaysPerYear) + 1

\* d.strftime("%Y-%m-%d"): the year and the day within it
strftime(date) == <<YearOf(date), ((date - 1) % DaysPerYear) + 1>>

\* dt.datetime.strptime(text, "%Y-%m-%d") raises on anything but a date text
CanParseDate(text) ==
    /\ Len(text) = 2
    /\ text[1] \in Nat /\ text[1] >= 1
    /\ text[2] \in 1..DaysPerYear

strptime(text) == (text[1] - 1) * DaysPerYear + text[2]

(***************************************************************************)
(* The site: what the page of one date holds.  A row of the page is the    *)
(* Release cell and the Daily cell as scraped.                             *)
(***************************************************************************)
Cell(r, m) == [release |-> r, daily |-> m]

DayTables == <<
    <<>>,
    << Cell(<<" ", "A", " ">>, <<"$", "1", "0", "0">>) >>,
    << Cell(<<"B">>, <<"$", "1", ",", "2", "5", "0", ".", "5", "0">>),
       Cell(<<"A">>, <<"-">>) >>,
    << Cell(<<"B">>, <<"1", "0", "0">>),
       Cell(<<" ">>, <<"$", "5">>),
       Cell(<<"A">>, <<"$", "1", "0", "0">>) >> >>

SourceVariants == 0..3

\* The characters a scraped Daily cell is made of in the probes below.
MoneyChars == <<" ", "$", ",", "-", ".", "1", "5", "N", "/", "A", "*">>

\* The n-th text over MoneyChars, shorter texts first (0 is the empty text).
RECURSIVE TextOf(_)
TextOf(n) ==
    IF n = 0 THEN <<>>
    ELSE TextOf((n - 1) \div Len(MoneyChars))
            \o <<MoneyChars[((n - 1) % Len(MoneyChars)) + 1]>>

\* The number of texts over MoneyChars of length at most len.
RECURSIVE NumTexts(_)
NumTexts(len) ==
    IF len = 0 THEN 1 ELSE 1 + Len(MoneyChars) * NumTexts(len - 1)

\* Probe n: a page of one release whose Daily cell is missing (n = 1) or
\* the text number n - 2.
ProbePage(n) == << Cell(<<"A">>, IF n = 1 THEN NA ELSE TextOf(n - 2)) >>

\* The page the site serves for a date: in data set v >= 0, one of the day
\* tables; for v < 0, the probe -v on every date.
Page(v, date) ==
    IF v < 0 THEN ProbePage(-v) ELSE DayTables[((date * v) % Len(DayTables)) + 1]

(***************************************************************************)
(* The raw tab.                                                            *)
(***************************************************************************)
HEADER == [date |-> <<"date">>, title |-> <<"title">>, revenue |-> <<"revenue">>]

Row(ds, title, revenue) == [date |-> ds, title |-> title, revenue |-> revenue]

\* ensure_headers(ws)
ensure_headers(ws) == IF ws # <<>> THEN ws ELSE <<HEADER>>

\* ws.col_values(1)
col_values(ws) == [k \in 1..Len(ws) |-> ws[k].date]

\* Mutant of get_max_date: a last cell that does not parse is skipped and
\* the watermark is read from the last cell that does.
get_max_date_SkipBad(ws) ==
    LET col_a == col_values(ws)
        good == {k \in 2..Len(col_a) : CanParseDate(col_a[k])}
    IN  IF good = {} THEN None
        ELSE Some(strptime(col_a[CHOOSE k \in good : \A j \in good : j <= k]))

get_max_date(ws) ==
    LET col_a == col_values(ws)
    IN  IF Len(col_a) <= 1 THEN None
        ELSE LET last == col_a[Len(col_a)]
             IN  IF CanParseDate(last) THEN Some(strptime(last)) ELSE None

(***************************************************************************)
(* Fetching one date (main.py:115-182).                                    *)
(***************************************************************************)
DEFAULT_MAX_RETRIES == 4
REQUEST_SLEEP_TENTHS == 6

\* Mutant of Backoff: the delay grows without the cap.
Backoff_Uncapped(a) == 7 * a

\* time.sleep(min(8, 0.7 * attempt)), in tenths of a second
Backoff(a) == Min(80, 7 * a)

\* The frame fetch_daily_table returns for a page: one row per page row,
\* title and revenue cleaned, the rows with a blank title dropped.
NormalizePage(page, ds) ==
    SelectSeq([k \in 1..Len(page) |->
                  Row(ds, NormTitle(page[k].release), _parse_money(page[k].daily))],
              LAMBDA r : r.title # <<>>)

fetch_daily_table(v, date) == NormalizePage(Page(v, date), strftime(date))

(***************************************************************************)
(* Aggregation and the leaderboard tab (main.py:206-231, 274-283).         *)
(***************************************************************************)
Entry(t, r) == [title |-> t, revenue |-> r]

\* pd.to_numeric(errors="coerce").fillna(0).astype(int) of one cell text
to_numeric(s) == IF FloatOk(s) THEN IntOfFloat(s) ELSE 0

\* raw.get_all_values(): every cell as the text the sheet shows
get_all_values(ws) ==
    [k \in 1..Len(ws) |->
        IF k = 1 THEN ws[k]
        ELSE [date |-> ws[k].date, title |-> ws[k].title,
              revenue |-> IntToStr(ws[k].revenue)]]

\* df_all[["title", "revenue"]] of main()
ReadAll(ws, df_year) ==
    LET raw_vals == get_all_values(ws)
    IN  IF Len(raw_vals) <= 1
        THEN [k \in 1..Len(df_year) |-> Entry(df_year[k].title, df_year[k].revenue)]
        ELSE [k \in 1..(Len(raw_vals) - 1) |->
                 Entry(raw_vals[k + 1].title, to_numeric(raw_vals[k + 1].revenue))]

\* The sum of the revenues of the records lo..hi of df that carry title t,
\* added pairwise.
RECURSIVE GroupTotal(_, _, _, _)
GroupTotal(df, t, lo, hi) ==
    IF lo > hi THEN 0
    ELSE IF lo = hi THEN (IF df[lo].title = t THEN df[lo].revenue ELSE 0)
    ELSE LET mid == (lo + hi) \div 2
         IN  GroupTotal(df, t, lo, mid) + GroupTotal(df, t, mid + 1, hi)

\* groupby("title", as_index=False)["revenue"].sum(): one entry per distinct
\* title, the group keys in ascending order, each with the sum of its group.
GroupSum(df) ==
    LET keys == {df[k].title : k \in 1..Len(df)}
        place == {<<Cardinality({u \in keys : StrLess(u, t)}) + 1, t>> : t \in keys}
        groups == [p \in 1..Cardinality(keys) |->
                     LET t == (CHOOSE e \in place : e[1] = p)[2]
                     IN  Entry(t, GroupTotal(df, t, 1, Len(df)))]
    IN  SubSeq(groups, 1, Cardinality(keys))

\* Mutant of TotalsBefore: equal totals go by descending title.
TotalsBefore_TitleDesc(a, b) ==
    \/ a.revenue > b.revenue
    \/ a.revenue = b.revenue /\ StrLess(b.title, a.title)

\* sort_values(["revenue", "title"], ascending=[False, True])
TotalsBefore(a, b) ==
    \/ a.revenue > b.revenue
    \/ a.revenue = b.revenue /\ StrLess(a.title, b.title)

\* A stable sort by TotalsBefore: an entry goes to the place after all the
\* entries that come before it, and after the earlier ones that tie with it.
sort_values(g) ==
    LET n == Len(g)
        ahead(k) == Cardinality({j \in 1..n :
                        \/ TotalsBefore(g[j], g[k])
                        \/ ~TotalsBefore(g[k], g[j]) /\ j < k})
        place == {<<ahead(k) + 1, k>> : k \in 1..n}
        sorted == [p \in 1..n |-> g[(CHOOSE e \in place : e[1] = p)[2]]]
    IN  SubSeq(sorted, 1, n)

Totals(df) == sort_values(GroupSum(df))

\* Mutant of Head50: the ranking is not cut.
Head50_All(totals) == totals

\* totals.head(50)
Head50(totals) == SubSeq(totals, 1, Min(50, Len(totals)))

\* top50 with the rank column inserted
Top50(totals) ==
    LET h == Head50(totals)
    IN  [k \in 1..Len(h) |-> <<k, h[k].title, h[k].revenue>>]

Blank == [A1 |-> <<>>, A3 |-> <<>>, A5 |-> <<>>, A6 |-> <<>>]

TitleLine(year) == <<"Leaderboard", year>>
NoData == <<"No data yet.">>
WinnerLine(totals) == <<"Winner (current):", totals[1].title, totals[1].revenue>>
RankHeader == <<"Rank", "Title", "Revenue">>

(***************************************************************************)
(* main(): one synchronization run.                                        *)
(***************************************************************************)
\* Mutants of StartDate: the day of the watermark is scraped again; the
\* watermark is not looked at.
StartDate_SameDay(md, y) == IF md # None THEN Max(md[1], year_start(y)) ELSE year_start(y)
StartDate_YearStart(md, y) == year_start(y)
StartDate_DayBefore(md, y) == IF md # None THEN Max(md[1] - 1, year_start(y)) ELSE year_start(y)

\* main.py:254-257
StartDate(md, y) == IF md # None THEN Max(md[1] + 1, year_start(y)) ELSE year_start(y)

\* Mutant of ClearIfRebuild: the raw tab is cleared by every run.
ClearIfRebuild_Always(rb, ws) == <<>>

\* main.py:240-241
ClearIfRebuild(rb, ws) == IF rb THEN <<>> ELSE ws

\* Mutant of EffectiveEnd: the window runs to the end of the year.
EffectiveEnd_YearEnd(y, t) == year_end(y)

\* main.py:251
EffectiveEnd(y, t) == Min(year_end(y), t)

\* main.py:78, rows[i:i + batch_size] with i counted from 0
Chunk(rows, off, size) == SubSeq(rows, off + 1, Min(off + size, Len(rows)))

Ended == {"idle", "done", "fetch_error", "sink_error"}
Publishing == {"lb_clear", "lb_title", "lb_a3", "lb_header", "lb_rows"}

Init ==
    /\ source \in SourceVariants
    /\ MAX_RETRIES = DEFAULT_MAX_RETRIES
    /\ today = 1
    /\ raw = <<>>
    /\ leader = Blank
    /\ pc = "idle"
    /\ YEAR = 1
    /\ REBUILD = FALSE
    /\ APPEND_BATCH_SIZE = 1
    /\ max_date = None
    /\ start = 1
    /\ effective_end = 1
    /\ d = 1
    /\ attempt = 1
    /\ frames = <<>>
    /\ i = 0
    /\ added = 0
    /\ df_all = <<>>
    /\ raw0 = <<>>
    /\ leader0 = Blank
    /\ repeat = FALSE
    /\ delays = <<>>
    /\ requests = 0
    /\ reqDates = {}
    /\ fetched = <<>>
    /\ slept = 0
    /\ yearsRun = {}
    /\ runs = 0

\* main.py:235-263: a new process is started with its configuration, on a
\* day not before the day of the run before.  It clears the raw tab on
\* REBUILD, makes sure of the header row, reads the watermark and settles
\* the scrape window; with an empty window it returns at once.
StartRun ==
    /\ pc \in Ended
    /\ runs < MaxRuns
    /\ runs' = runs + 1
    /\ \E y \in Years, rb \in BOOLEAN, bs \in 1..MaxBatch, t \in today..(NumYears * DaysPerYear) :
        LET ws == ensure_headers(ClearIfRebuild(rb, raw))
            md == IF rb THEN None ELSE get_max_date(ws)
            st == StartDate(md, y)
            ee == EffectiveEnd(y, t)
        IN  /\ YEAR' = y
            /\ REBUILD' = rb
            /\ APPEND_BATCH_SIZE' = bs
            /\ today' = t
            /\ raw' = ws
            /\ max_date' = md
            /\ start' = st
            /\ effective_end' = ee
            /\ d' = st
            /\ pc' = IF st > ee THEN "done" ELSE "scrape"
            /\ repeat' = (pc = "done" /\ y = YEAR /\ t = today /\ ~rb)
            /\ yearsRun' = yearsRun \cup {y}
    /\ attempt' = 1
    /\ frames' = <<>>
    /\ i' = 0
    /\ added' = 0
    /\ df_all' = <<>>
    /\ raw0' = raw
    /\ leader0' = leader
    /\ delays' = <<>>
    /\ requests' = 0
    /\ reqDates' = {}
    /\ fetched' = <<>>
    /\ slept' = 0
    /\ UNCHANGED <<source, MAX_RETRIES, leader>>

\* Mutant of FetchOK: the frame is returned without the politeness sleep.
FetchOK_NoSleep ==
    /\ pc = "scrape"
    /\ attempt <= MAX_RETRIES
    /\ LET df == frames \o fetch_daily_table(source, d)
       IN  /\ frames' = df
           /\ pc' = IF d < effective_end THEN "scrape"
                    ELSE IF df = <<>> THEN "readback" ELSE "append"
    /\ d' = IF d < effective_end THEN d + 1 ELSE d
    /\ attempt' = 1
    /\ requests' = (IF attempt = 1 THEN 0 ELSE requests) + 1
    /\ delays' = IF attempt = 1 THEN <<>> ELSE delays
    /\ reqDates' = reqDates \cup {d}
    /\ slept' = 0
    /\ fetched' = fetched \o <<d>>
    /\ UNCHANGED <<source, MAX_RETRIES, today, raw, leader, YEAR, REBUILD,
                   APPEND_BATCH_SIZE, max_date, start, effective_end, i, added,
                   df_all, raw0, leader0, repeat, yearsRun, runs>>

\* main.py:122-175, 194-200: the request for date d succeeds; the frame is
\* kept and the politeness delay slept.  After the last date of the window
\* the frames are concatenated and main() goes on to the append.
FetchOK ==
    /\ pc = "scrape"
    /\ attempt <= MAX_RETRIES
    /\ LET df == frames \o fetch_daily_table(source, d)
       IN  /\ frames' = df
           /\ pc' = IF d < effective_end THEN "scrape"
                    ELSE IF df = <<>> THEN "readback" ELSE "append"
    /\ d' = IF d < effective_end THEN d + 1 ELSE d
    /\ attempt' = 1
    /\ requests' = (IF attempt = 1 THEN 0 ELSE requests) + 1
    /\ delays' = IF attempt = 1 THEN <<>> ELSE delays
    /\ reqDates' = reqDates \cup {d}
    /\ slept' = REQUEST_SLEEP_TENTHS
    /\ fetched' = fetched \o <<d>>
    /\ UNCHANGED <<source, MAX_RETRIES, today, raw, leader, YEAR, REBUILD,
                   APPEND_BATCH_SIZE, max_date, start, effective_end, i, added,
                   df_all, raw0, leader0, repeat, yearsRun, runs>>

\* Mutant of FetchFail: when the attempts are exhausted the frames fetched so
\* far are appended to the raw tab before the error leaves main().
FetchFail_Flush ==
    /\ pc = "scrape"
    /\ attempt <= MAX_RETRIES
    /\ requests' = (IF attempt = 1 THEN 0 ELSE requests) + 1
    /\ delays' = (IF attempt = 1 THEN <<>> ELSE delays) \o <<Backoff(attempt)>>
    /\ reqDates' = reqDates \cup {d}
    /\ slept' = Backoff(attempt)
    /\ IF attempt < MAX_RETRIES
       THEN attempt' = attempt + 1 /\ pc' = "scrape" /\ UNCHANGED <<raw, added>>
       ELSE /\ attempt' = attempt
            /\ pc' = "fetch_error"
            /\ raw' = raw \o frames
            /\ added' = Len(frames)
    /\ UNCHANGED <<source, MAX_RETRIES, today, leader, YEAR, REBUILD,
                   APPEND_BATCH_SIZE, max_date, start, effective_end, d, frames,
                   i, df_all, raw0, leader0, repeat, yearsRun, runs, fetched>>

\* Mutant of FetchFail: when the attempts are exhausted the date is given up
\* and scrape_year goes on with the next date.
FetchFail_Skip ==
    /\ pc = "scrape"
    /\ attempt <= MAX_RETRIES
    /\ requests' = (IF attempt = 1 THEN 0 ELSE requests) + 1
    /\ delays' = (IF attempt = 1 THEN <<>> ELSE delays) \o <<Backoff(attempt)>>
    /\ reqDates' = reqDates \cup {d}
    /\ slept' = Backoff(attempt)
    /\ IF attempt < MAX_RETRIES
       THEN attempt' = attempt + 1 /\ pc' = "scrape" /\ d' = d
       ELSE /\ attempt' = 1
            /\ d' = IF d < effective_end THEN d + 1 ELSE d
            /\ pc' = IF d < effective_end THEN "scrape"
                     ELSE IF frames = <<>> THEN "readback" ELSE "append"
    /\ UNCHANGED <<source, MAX_RETRIES, today, raw, leader, YEAR, REBUILD,
                   APPEND_BATCH_SIZE, max_date, start, effective_end, frames,
                   i, added, df_all, raw0, leader0, repeat, yearsRun, runs, fetched>>

\* Mutant of FetchFail: the loop allows one attempt more than MAX_RETRIES.
FetchFail_OneMore ==
    /\ pc = "scrape"
    /\ attempt <= MAX_RETRIES + 1
    /\ requests' = (IF attempt = 1 THEN 0 ELSE requests) + 1
    /\ delays' = (IF attempt = 1 THEN <<>> ELSE delays) \o <<Backoff(attempt)>>
    /\ reqDates' = reqDates \cup {d}
    /\ slept' = Backoff(attempt)
    /\ IF attempt < MAX_RETRIES + 1
       THEN attempt' = attempt + 1 /\ pc' = "scrape"
       ELSE attempt' = attempt /\ pc' = "fetch_error"
    /\ UNCHANGED <<source, MAX_RETRIES, today, raw, leader, YEAR, REBUILD,
                   APPEND_BATCH_SIZE, max_date, start, effective_end, d, frames,
                   i, added, df_all, raw0, leader0, repeat, yearsRun, runs, fetched>>

\* main.py:177-182: the request for date d fails (status, page shape or
\* transport); the backoff is slept, and after the last attempt the
\* RuntimeError leaves scrape_year and main().
FetchFail ==
    /\ pc = "scrape"
    /\ attempt <= MAX_RETRIES
    /\ requests' = (IF attempt = 1 THEN 0 ELSE requests) + 1
    /\ delays' = (IF attempt = 1 THEN <<>> ELSE delays) \o <<Backoff(attempt)>>
    /\ reqDates' = reqDates \cup {d}
    /\ slept' = Backoff(attempt)
    /\ IF attempt < MAX_RETRIES
       THEN attempt' = attempt + 1 /\ pc' = "scrape"
       ELSE attempt' = attempt /\ pc' = "fetch_error"
    /\ UNCHANGED <<source, MAX_RETRIES, today, raw, leader, YEAR, REBUILD,
                   APPEND_BATCH_SIZE, max_date, start, effective_end, d, frames,
                   i, added, df_all, raw0, leader0, repeat, yearsRun, runs, fetched>>

\* main.py:77-80: one ws.append_rows(chunk) succeeds.
AppendChunk ==
    /\ pc = "append"
    /\ LET chunk == Chunk(frames, i, APPEND_BATCH_SIZE)
       IN  /\ raw' = raw \o chunk
           /\ added' = added + Len(chunk)
    /\ i' = i + APPEND_BATCH_SIZE
    /\ pc' = IF i + APPEND_BATCH_SIZE < Len(frames) THEN "append" ELSE "readback"
    /\ UNCHANGED <<source, MAX_RETRIES, today, leader, YEAR, REBUILD,
                   APPEND_BATCH_SIZE, max_date, start, effective_end, d, attempt,
                   frames, df_all, raw0, leader0, repeat, reqDates, yearsRun, runs,
                   slept, fetched>>
    /\ delays' = <<>>
    /\ requests' = 0

\* main.py:79: ws.append_rows(chunk) raises; the chunks before it stay.
AppendFail ==
    /\ pc = "append"
    /\ pc' = "sink_error"
    /\ UNCHANGED <<source, MAX_RETRIES, today, raw, leader, YEAR, REBUILD,
                   APPEND_BATCH_SIZE, max_date, start, effective_end, d, attempt,
                   frames, i, added, df_all, raw0, leader0, repeat, reqDates,
                   yearsRun, runs,
                   slept, fetched>>
    /\ delays' = <<>>
    /\ requests' = 0

\* main.py:274-283: the raw tab is read back for the leaderboard.
ReadBack ==
    /\ pc = "readback"
    /\ df_all' = ReadAll(raw, frames)
    /\ pc' = "lb_clear"
    /\ UNCHANGED <<source, MAX_RETRIES, today, raw, leader, YEAR, REBUILD,
                   APPEND_BATCH_SIZE, max_date, start, effective_end, d, attempt,
                   frames, i, added, raw0, leader0, repeat, reqDates, yearsRun, runs,
                   slept, fetched>>
    /\ delays' = <<>>
    /\ requests' = 0

LbUnchanged == UNCHANGED <<source, MAX_RETRIES, today, raw, YEAR, REBUILD,
                   APPEND_BATCH_SIZE, max_date, start, effective_end, d, attempt,
                   frames, i, added, df_all, raw0, leader0, repeat, delays,
                   requests, reqDates, yearsRun, runs,
                   slept, fetched>>

\* main.py:208: ws.clear()
LbClear ==
    /\ pc = "lb_clear"
    /\ leader' = Blank
    /\ pc' = "lb_title"
    /\ LbUnchanged

\* main.py:209: the title line
LbTitle ==
    /\ pc = "lb_title"
    /\ leader' = [leader EXCEPT !.A1 = TitleLine(YEAR)]
    /\ pc' = "lb_a3"
    /\ LbUnchanged

\* Mutant of LbA3: the return after "No data yet." is missing.
LbA3_NoReturn ==
    /\ pc = "lb_a3"
    /\ IF df_all = <<>>
       THEN leader' = [leader EXCEPT !.A3 = NoData]
       ELSE leader' = [leader EXCEPT !.A3 = WinnerLine(Totals(df_all))]
    /\ pc' = "lb_header"
    /\ LbUnchanged

\* main.py:211-221: "No data yet." and return, or the winner line
LbA3 ==
    /\ pc = "lb_a3"
    /\ IF df_all = <<>>
       THEN /\ leader' = [leader EXCEPT !.A3 = NoData]
            /\ pc' = "done"
       ELSE /\ leader' = [leader EXCEPT !.A3 = WinnerLine(Totals(df_all))]
            /\ pc' = "lb_header"
    /\ LbUnchanged

\* main.py:226: the header of the ranking
LbHeader ==
    /\ pc = "lb_header"
    /\ leader' = [leader EXCEPT !.A5 = RankHeader]
    /\ pc' = "lb_rows"
    /\ LbUnchanged

\* main.py:227-231: the ranked rows; main() ends
LbRows ==
    /\ pc = "lb_rows"
    /\ leader' = [leader EXCEPT !.A6 = Top50(Totals(df_all))]
    /\ pc' = "done"
    /\ LbUnchanged

\* A call on the leaderboard tab raises; what was written stays.
LbFail ==
    /\ pc \in Publishing
    /\ pc' = "sink_error"
    /\ UNCHANGED leader
    /\ LbUnchanged

Next ==
    \/ StartRun
    \/ FetchOK
    \/ FetchFail
    \/ AppendChunk
    \/ AppendFail
    \/ ReadBack
    \/ LbClear
    \/ LbTitle
    \/ LbA3
    \/ LbHeader
    \/ LbRows
    \/ LbFail

Spec == Init /\ [][Next]_vars

(***************************************************************************)
(* fetch_daily_table under every retry budget: a run in its scrape phase,  *)
(* MAX_RETRIES drawn from 1..MaxRetriesBound.                              *)
(***************************************************************************)
InitFetch ==
    /\ source \in SourceVariants
    /\ MAX_RETRIES \in 1..MaxRetriesBound
    /\ today = DaysPerYear
    /\ raw = <<HEADER>>
    /\ leader = Blank
    /\ pc = "scrape"
    /\ YEAR = 1
    /\ REBUILD = FALSE
    /\ APPEND_BATCH_SIZE = 1
    /\ max_date = None
    /\ start = year_start(1)
    /\ effective_end = EffectiveEnd(1, DaysPerYear)
    /\ d = year_start(1)
    /\ attempt = 1
    /\ frames = <<>>
    /\ i = 0
    /\ added = 0
    /\ df_all = <<>>
    /\ raw0 = <<>>
    /\ leader0 = Blank
    /\ repeat = FALSE
    /\ delays = <<>>
    /\ requests = 0
    /\ reqDates = {}
    /\ fetched = <<>>
    /\ slept = 0
    /\ yearsRun = {1}
    /\ runs = 1

NextFetch == FetchOK \/ FetchFail

SpecFetch == InitFetch /\ [][NextFetch]_vars

(***************************************************************************)
(* Normalization under every Daily cell: a run scraping a single date      *)
(* whose page is a probe, then appending the row.                          *)
(***************************************************************************)
InitMoney ==
    /\ \E n \in 1..(NumTexts(MaxMoneyLen) + 1) : source = -n
    /\ MAX_RETRIES = DEFAULT_MAX_RETRIES
    /\ today = 1
    /\ raw = <<HEADER>>
    /\ leader = Blank
    /\ pc = "scrape"
    /\ YEAR = 1
    /\ REBUILD = FALSE
    /\ APPEND_BATCH_SIZE = 1
    /\ max_date = None
    /\ start = year_start(1)
    /\ effective_end = EffectiveEnd(1, 1)
    /\ d = year_start(1)
    /\ attempt = 1
    /\ frames = <<>>
    /\ i = 0
    /\ added = 0
    /\ df_all = <<>>
    /\ raw0 = <<>>
    /\ leader0 = Blank
    /\ repeat = FALSE
    /\ delays = <<>>
    /\ requests = 0
    /\ reqDates = {}
    /\ fetched = <<>>
    /\ slept = 0
    /\ yearsRun = {1}
    /\ runs = 1

NextMoney == FetchOK \/ AppendChunk

SpecMoney == InitMoney /\ [][NextMoney]_vars

(***************************************************************************)
(* One run on a raw tab as it may be found: missing its header, empty,     *)
(* well-formed, or edited by hand so that its last date cell is no date.   *)
(* col_values returns the column down to its last non-empty cell, so the   *)
(* cells below are all non-empty.                                          *)
(***************************************************************************)
BadDates == { <<0, 0>>, <<1, DaysPerYear + 1>> }

FoundLedgers ==
    LET good(k) == Row(strftime(k), <<"A">>, 100)
        bad(t)  == Row(t, <<"A">>, 100)
    IN  { <<>>, <<HEADER>>, <<HEADER, good(1)>>, <<HEADER, good(1), good(2)>> }
        \cup { <<HEADER, bad(t)>> : t \in BadDates }
        \cup { <<HEADER, good(1), bad(t)>> : t \in BadDates }
        \cup { <<HEADER, good(1), good(2), bad(t)>> : t \in BadDates }

InitLedger ==
    /\ source \in SourceVariants
    /\ MAX_RETRIES = DEFAULT_MAX_RETRIES
    /\ today = 1
    /\ raw \in FoundLedgers
    /\ leader = Blank
    /\ pc = "idle"
    /\ YEAR = 1
    /\ REBUILD = FALSE
    /\ APPEND_BATCH_SIZE = 1
    /\ max_date = None
    /\ start = 1
    /\ effective_end = 1
    /\ d = 1
    /\ attempt = 1
    /\ frames = <<>>
    /\ i = 0
    /\ added = 0
    /\ df_all = <<>>
    /\ raw0 = <<>>
    /\ leader0 = Blank
    /\ repeat = FALSE
    /\ delays = <<>>
    /\ requests = 0
    /\ reqDates = {}
    /\ fetched = <<>>
    /\ slept = 0
    /\ yearsRun = {}
    /\ runs = MaxRuns - 1

SpecLedger == InitLedger /\ [][Next]_vars

(***************************************************************************)
(* The leaderboard of large ledgers: a run about to read the raw tab back, *)
(* the raw tab drawn from a family of ledgers of up to MaxTitles titles.   *)
(***************************************************************************)
Letters == <<"B", "a", "A", "D", "C", "F", "E", "G">>

TitleOf(k) == <<Letters[((k - 1) \div 8) + 1], Letters[((k - 1) % 8) + 1]>>

Shapes == {"tied", "rising", "mixed"}

\* Number of records of a ledger of n titles: in the mixed shape every
\* second title has a second record.
NumRecords(shape, n) == IF shape = "mixed" THEN n + (n \div 2) ELSE n

RecordOf(shape, n, j) ==
    IF j > n THEN Row(strftime(1), TitleOf(2 * (j - n)), 30)
    ELSE Row(strftime(1), TitleOf(j),
             CASE shape = "tied" -> 100
               [] shape = "rising" -> 10 * j
               [] OTHER -> ((j * 7) % 5) * 10)

LedgerOf(shape, n, backwards) ==
    LET m == NumRecords(shape, n)
    IN  <<HEADER>> \o [j \in 1..m |->
                         RecordOf(shape, n, IF backwards THEN m + 1 - j ELSE j)]

InitRank ==
    /\ source = 0
    /\ MAX_RETRIES = DEFAULT_MAX_RETRIES
    /\ today = 1
    /\ \E shape \in Shapes, n \in 1..MaxTitles, backwards \in BOOLEAN :
          raw = LedgerOf(shape, n, backwards)
    /\ leader = Blank
    /\ pc = "readback"
    /\ YEAR = 1
    /\ REBUILD = FALSE
    /\ APPEND_BATCH_SIZE = 1
    /\ max_date = None
    /\ start = 1
    /\ effective_end = 1
    /\ d = 1
    /\ attempt = 1
    /\ frames = <<>>
    /\ i = 0
    /\ added = 0
    /\ df_all = <<>>
    /\ raw0 = raw
    /\ leader0 = Blank
    /\ repeat = FALSE
    /\ delays = <<>>
    /\ requests = 0
    /\ reqDates = {}
    /\ fetched = <<>>
    /\ slept = 0
    /\ yearsRun = {1}
    /\ runs = 1

NextRank ==
    \/ ReadBack
    \/ LbClear
    \/ LbTitle
    \/ LbA3
    \/ LbHeader
    \/ LbRows
    \/ LbFail

SpecRank == InitRank /\ [][NextRank]_vars

(***************************************************************************)
(* Properties.                                                             *)
(***************************************************************************)
\* The raw tab as main() leaves it before scraping, and the rows the run
\* has appended to it since.
Base == ensure_headers(IF REBUILD THEN <<>> ELSE raw0)
Appended == SubSeq(raw, Len(Base) + 1, Len(raw))

\* The rows the site holds for the dates a..b, in date order.
RECURSIVE SiteRows(_, _, _)
SiteRows(v, a, b) ==
    IF a > b THEN <<>> ELSE SiteRows(v, a, b - 1) \o NormalizePage(Page(v, b), strftime(b))

\* The append of the run is over and main() has not failed.
AppendOver == pc \in ({"readback", "done"} \cup Publishing)

\* C1: a run with the rebuild flag off that follows a completed run with the
\* same target year on the same day (the site serving the same data) appends
\* no row: the raw tab stays as the run found it.
C1_Idempotent == repeat => (added = 0 /\ raw = raw0)

\* A repeated run that scraped again (the last days of the window hold no
\* row) and completed, on a ledger that holds rows.
C1_Witness == repeat /\ pc = "done" /\ reqDates # {} /\ Len(raw0) > 1

\* C2: every row a run appends is dated strictly after the watermark the run
\* read; with no watermark the window starts on the first day of the target
\* year and a finished append holds every row of every date of the window.
C2_Watermark ==
    /\ max_date # None =>
          \A k \in 1..Len(Appended) : strptime(Appended[k].date) > max_date[1]
    /\ max_date = None /\ pc # "idle" =>
          /\ start = year_start(YEAR)
          /\ AppendOver => Appended = SiteRows(source, year_start(YEAR), effective_end)

\* A completed run that read a watermark and appended rows.
C2_Witness == pc = "done" /\ max_date # None /\ added > 0 /\ Len(Appended) > 0

\* The data rows the run found are still there, each at its position.
KeepsRows ==
    \A k \in 2..Len(raw0) : k <= Len(raw) /\ raw[k] = raw0[k]

\* C3 as stated: every run, completed or aborted, keeps every data row the
\* raw tab held before it, unchanged and in place.
C3_AppendOnly_AnyRun == KeepsRows

\* C3 amended: a run with the rebuild flag off keeps them.
C3_AppendOnly == ~REBUILD => KeepsRows

\* A run without rebuild that found rows and was aborted in the middle of
\* its append, after a chunk was committed.
C3_Witness == ~REBUILD /\ Len(raw0) > 1 /\ pc = "sink_error" /\ added > 0 /\ i < Len(frames)

\* The rows of the raw tab dated dd, in their order.
RowsOfDay(ws, dd) ==
    SelectSeq(SubSeq(ws, 2, Len(ws)), LAMBDA r : r.date = strftime(dd))

\* The last date the raw tab holds (its watermark), 0 for none.
LastDay(ws) == IF get_max_date(ws) = None THEN 0 ELSE get_max_date(ws)[1]

\* C4 as stated: whatever appends failed in the runs before, once a run
\* completes (all runs so far for the same target year), every day from the
\* first day of the year to the last day ingested has exactly the rows the
\* site holds for it: none twice, none missing.
C4_ExactlyOncePerDay ==
    (pc = "done" /\ yearsRun = {YEAR}) =>
        \A dd \in year_start(YEAR)..LastDay(raw) :
            RowsOfDay(raw, dd) = NormalizePage(Page(source, dd), strftime(dd))

\* C5: a fetch whose attempts all fail issues exactly MAX_RETRIES requests
\* and then raises; it raises in no other case; the backoff delays slept
\* never decrease and none exceeds 8 seconds (80 tenths).
C5_RetryPolicy ==
    /\ pc = "fetch_error" => (requests = MAX_RETRIES /\ Len(delays) = MAX_RETRIES)
    /\ (pc = "scrape" /\ attempt > 1) => (requests = attempt - 1 /\ requests < MAX_RETRIES)
    /\ Len(delays) = MAX_RETRIES => pc = "fetch_error"
    /\ \A k \in 1..Len(delays) :
          /\ delays[k] <= 80
          /\ k > 1 => delays[k - 1] <= delays[k]

\* A fetch that failed on every attempt, long enough to reach the cap.
C5_Witness ==
    /\ pc = "fetch_error"
    /\ requests = MAX_RETRIES
    /\ \E k \in 1..Len(delays) : delays[k] = 80 /\ 7 * k > 80

\* C6: when the fetch of a date exhausts its attempts the run is over: the
\* raw tab holds no row of the run, the leaderboard tab is as the run found
\* it, no date after the failed one was requested, and the run takes no
\* further step.
C6_FetchAbort ==
    pc = "fetch_error" =>
        /\ added = 0
        /\ raw = Base
        /\ leader = leader0
        /\ reqDates = start..d
        /\ ~ENABLED (FetchOK \/ FetchFail \/ AppendChunk \/ AppendFail \/ ReadBack
                     \/ LbClear \/ LbTitle \/ LbA3 \/ LbHeader \/ LbRows \/ LbFail)

\* A run aborted by the fetch of its second date, after the first date had
\* been fetched with rows.
C6_Witness == pc = "fetch_error" /\ d > start /\ frames # <<>> /\ d < effective_end + 1

\* What one complete publication of the records df for a year leaves on the
\* leaderboard tab.
Published(df, year) ==
    IF df = <<>>
    THEN [A1 |-> TitleLine(year), A3 |-> NoData, A5 |-> <<>>, A6 |-> <<>>]
    ELSE [A1 |-> TitleLine(year), A3 |-> WinnerLine(Totals(df)),
          A5 |-> RankHeader, A6 |-> Top50(Totals(df))]

\* The records of the raw tab, and those of one year.
Records(ws) == [k \in 1..(Len(ws) - 1) |-> Entry(ws[k + 1].title, ws[k + 1].revenue)]

YearRows(ws, year) ==
    SelectSeq(SubSeq(ws, 2, Len(ws)), LAMBDA r : r.date[1] = year)

YearRecords(ws, year) ==
    LET rows == YearRows(ws, year)
    IN  [k \in 1..Len(rows) |-> Entry(rows[k].title, rows[k].revenue)]

\* C7 as stated: after every run that ends without error, also one that
\* found no new date, the leaderboard tab holds the publication of the whole
\* raw tab for the target year of the run.
C7_Freshness == pc = "done" => leader = Published(Records(raw), YEAR)

\* C8 as stated: the leaderboard a run publishes for its target year is the
\* ranking of the raw tab's records of that year alone.
C8_YearScope ==
    (pc = "done" /\ start <= effective_end) =>
        leader = Published(YearRecords(raw, YEAR), YEAR)

\* The sum of the revenues of the records df.
RECURSIVE SumAll(_)
SumAll(df) == IF df = <<>> THEN 0 ELSE Head(df).revenue + SumAll(Tail(df))

\* The sum of the revenues of the records of df with title t.
SumFor(df, t) == SumAll(SelectSeq(df, LAMBDA e : e.title = t))

TitlesOf(df) == {df[k].title : k \in 1..Len(df)}

Reversed(df) == [k \in 1..Len(df) |-> df[Len(df) + 1 - k]]

\* The records were read back and are not empty.
Ranked == pc \in (Publishing \cup {"done"}) /\ df_all # <<>>

\* C9: for a non-empty record set the ranking has one entry per distinct
\* title, carrying the sum of the title's records; the entries go by
\* descending total and, among equal totals, by ascending title; the ranked
\* rows published carry the ranks 1, 2, ... in this order; and the records
\* taken in the reverse order give the same ranking.
C9_Ranking ==
    Ranked =>
        LET t == Totals(df_all)
        IN  /\ Len(t) = Cardinality(TitlesOf(df_all))
            /\ {t[k].title : k \in 1..Len(t)} = TitlesOf(df_all)
            /\ \A k \in 1..Len(t) : t[k].revenue = SumFor(df_all, t[k].title)
            /\ \A k \in 1..(Len(t) - 1) :
                  \/ t[k].revenue > t[k + 1].revenue
                  \/ /\ t[k].revenue = t[k + 1].revenue
                     /\ StrLess(t[k].title, t[k + 1].title)
            /\ pc = "done" =>
                  \A k \in 1..Len(leader.A6) :
                      leader.A6[k] = <<k, t[k].title, t[k].revenue>>
            /\ Totals(Reversed(df_all)) = t

\* A published ranking in which a title sums two records and two titles
\* have equal totals.
C9_Witness ==
    /\ Ranked /\ pc = "done"
    /\ Len(df_all) > Cardinality(TitlesOf(df_all))
    /\ \E k \in 1..(Len(leader.A6) - 1) : leader.A6[k][3] = leader.A6[k + 1][3]

\* C10: a completed publication of n >= 1 distinct titles has min(n, 50)
\* ranked rows, the first min(n, 50) entries of the full ordering, and the
\* winner line carries the title and the revenue of the rank-1 row.
C10_Truncation ==
    (Ranked /\ pc = "done") =>
        LET t == Totals(df_all)
            n == Cardinality(TitlesOf(df_all))
        IN  /\ Len(leader.A6) = Min(n, 50)
            /\ \A k \in 1..Len(leader.A6) :
                  leader.A6[k] = <<k, t[k].title, t[k].revenue>>
            /\ leader.A3 = <<"Winner (current):", leader.A6[1][2], leader.A6[1][3]>>

\* A completed publication of more than 50 titles.
C10_Witness ==
    /\ Ranked /\ pc = "done"
    /\ Cardinality(TitlesOf(df_all)) > 50
    /\ Len(leader.A6) = 50

\* A run has ended, normally or by an error.
RunEnded == pc \in {"done", "fetch_error", "sink_error"}

\* C11 as stated: once a run has ended, normally or by a fetch or sink
\* failure, the leaderboard tab is the complete output of the publication of
\* the run or what it was before the run, never a cleared or half-written
\* leaderboard.
C11_NoPartialLeaderboard ==
    RunEnded => (leader = leader0 \/ leader = Published(df_all, YEAR))

\* Ascending by (date, title): the earlier row has a smaller date, or the
\* same date and a title that is not greater.
SortedByDateTitle(rows) ==
    \A k \in 1..(Len(rows) - 1) :
        \/ strptime(rows[k].date) < strptime(rows[k + 1].date)
        \/ /\ rows[k].date = rows[k + 1].date
           /\ ~StrLess(rows[k + 1].title, rows[k].title)

\* C12 as stated: the rows a run hands to the append path, and so the rows
\* it appends, are sorted ascending by (date, title).
C12_DeltaSorted ==
    /\ pc = "append" => SortedByDateTitle(frames)
    /\ SortedByDateTitle(Appended)

\* C13: a publication from zero records ends the run normally with the
\* title line and the "No data yet." signal on a cleared tab: no winner
\* line, no header, no ranked row; the steps that write those are not taken.
C13_EmptyYear ==
    /\ (pc \in {"lb_header", "lb_rows"}) => df_all # <<>>
    /\ (pc = "done" /\ start <= effective_end /\ df_all = <<>>) =>
          leader = [A1 |-> TitleLine(YEAR), A3 |-> NoData, A5 |-> <<>>, A6 |-> <<>>]

\* A run that scraped its window, found no row anywhere and published.
C13_Witness ==
    /\ pc = "done" /\ start <= effective_end /\ df_all = <<>>
    /\ reqDates # {} /\ leader.A3 = NoData

\* C14 as stated: whatever the Daily cell of the page holds (missing, empty,
\* "-", "N/A", footnoted, a signed numeral), the record appended to the raw
\* tab has a revenue that is a number not below 0.
C14_RevenueNonNegative ==
    \A k \in 2..Len(raw) : raw[k].revenue \in Int /\ raw[k].revenue >= 0

\* The dates of the data rows of the raw tab, top to bottom.
DateColumn(ws) == [k \in 1..(Len(ws) - 1) |-> strptime(ws[k + 1].date)]

\* The latest date in a non-empty sequence of dates.
MaxOf(ds) == CHOOSE m \in {ds[k] : k \in 1..Len(ds)} : \A k \in 1..Len(ds) : ds[k] <= m

\* C15: starting from an empty ledger, after any runs (any target years,
\* rebuild on or off, completed or aborted at any point) the date column of
\* the raw tab never decreases from top to bottom, and the watermark
\* get_max_date reads from the last row is the latest date the tab holds.
C15_MonotonicLedger ==
    LET col == DateColumn(raw)
    IN  /\ \A j \in 1..Len(col) : \A k \in j..Len(col) : col[j] <= col[k]
        /\ col # <<>> => get_max_date(raw) = Some(MaxOf(col))
        /\ col = <<>> => get_max_date(raw) = None

\* A second run, without rebuild, has appended rows of the second year below
\* rows of the first year that the run before it left.
C15_Witness ==
    /\ pc = "done" /\ ~REBUILD /\ added > 0 /\ max_date # None
    /\ YearOf(max_date[1]) = 1 /\ YEAR = 2
    /\ DateColumn(raw)[Len(raw) - 1] > max_date[1]

\* The raw tab as the run found it has no date to read a watermark from:
\* it has no data row, or its last date cell is not a date.
NoWatermark(ws) == Len(ws) <= 1 \/ ~CanParseDate(ws[Len(ws)].date)

\* C16: when the raw tab has no data row, or its last date cell does not
\* parse as a date, the run reads no watermark, starts on the first day of
\* the target year, and a finished append holds every row of every date
\* from that day to the effective end.
C16_WatermarkFallback ==
    (pc # "idle" /\ NoWatermark(Base)) =>
        /\ max_date = None
        /\ start = year_start(YEAR)
        /\ d >= start
        /\ AppendOver => Appended = SiteRows(source, year_start(YEAR), effective_end)

\* A run without rebuild found data rows whose last date cell is no date,
\* fetched the year from its first day and appended rows.
C16_Witness ==
    /\ pc = "done" /\ ~REBUILD /\ Len(raw0) > 1
    /\ ~CanParseDate(raw0[Len(raw0)].date)
    /\ 1 \in reqDates /\ added > 0

\* C17: whenever the run is about to issue a request that is not its first,
\* the last thing it did was sleep: the politeness delay if the request
\* before succeeded (the next date starts at attempt 1), the backoff of the
\* failed attempt otherwise; so no two requests follow each other without a
\* delay.
C17_RequestPacing ==
    (pc = "scrape" /\ (fetched # <<>> \/ attempt > 1)) =>
        /\ slept > 0
        /\ attempt = 1 => slept = REQUEST_SLEEP_TENTHS
        /\ attempt > 1 => slept = Backoff(attempt - 1)

\* Both delays were slept in one run: a date was fetched and the first
\* request for the next date has failed.
C17_Witness ==
    /\ pc = "scrape" /\ fetched # <<>> /\ attempt = 2
    /\ slept = Backoff(1) /\ slept # REQUEST_SLEEP_TENTHS

\* The first n days from the start date of the run, in order.
Window(n) == [k \in 1..n |-> start + k - 1]

\* C18: the dates are fetched one at a time in increasing order with no
\* gap: while date d is being fetched the dates fetched so far are the days
\* from the start date to the day before d, each once, and no later date
\* has been requested; a run that gets past the scrape has fetched exactly
\* the days from the start date to the effective end, each once.
C18_FetchOrder ==
    /\ pc \in {"scrape", "fetch_error"} =>
          /\ fetched = Window(d - start)
          /\ reqDates \subseteq start..d
    /\ pc \in ({"append", "readback", "sink_error", "done"} \cup Publishing) =>
          /\ fetched = Window(effective_end - start + 1)
          /\ reqDates = start..effective_end

\* A completed run that fetched two dates.
C18_Witness == pc = "done" /\ Len(fetched) = 2 /\ fetched[1] + 1 = fetched[2]

\* The fetch of the last date has returned its rows.
Returned == fetched # <<>> /\ (pc \in {"append", "readback"} \/ (pc = "scrape" /\ attempt = 1))

\* C19: whatever attempts succeed or fail, the fetch of a date never issues
\* more than MAX_RETRIES requests and ends in one of two ways: it returns at
\* its first success (each request before it failed and was followed by a
\* backoff, none follows it), the frames then holding the rows of every
\* date fetched; or it raises, and then each of its MAX_RETRIES requests
\* had failed.
C19_FetchTermination ==
    /\ requests <= MAX_RETRIES /\ attempt <= MAX_RETRIES
    /\ Returned =>
          /\ requests \in 1..MAX_RETRIES
          /\ Len(delays) = requests - 1
          /\ frames = SiteRows(source, start, fetched[Len(fetched)])
    /\ pc = "fetch_error" =>
          /\ Len(delays) = requests
          /\ requests = MAX_RETRIES
          /\ ~ENABLED (FetchOK \/ FetchFail)

\* A fetch returned at its last allowed attempt, after every attempt before
\* it had failed.
C19_Witness ==
    /\ Returned /\ MAX_RETRIES > 2
    /\ requests = MAX_RETRIES /\ Len(delays) = MAX_RETRIES - 1

\* The days a run for the target year may touch on the current date.
Allowed == year_start(YEAR)..Min(year_end(YEAR), today)

\* C20: every date a run requests, and the date of every row it appends, is
\* a day of the target year not after the current date; and when the day
\* after the watermark is past min(last day of the year, today) the run
\* requests nothing and leaves the raw tab as it found it.
C20_FetchWindow ==
    pc # "idle" =>
        /\ reqDates \subseteq Allowed
        /\ \A k \in 1..Len(Appended) : strptime(Appended[k].date) \in Allowed
        /\ (max_date # None /\ max_date[1] + 1 > Min(year_end(YEAR), today)) =>
              /\ reqDates = {} /\ fetched = <<>>
              /\ added = 0 /\ raw = Base
              /\ pc = "done"

\* A run read a watermark of its own target year that is already the
\* current date, and returned without a fetch.
C20_Witness ==
    /\ pc = "done" /\ max_date # None /\ YearOf(max_date[1]) = YEAR
    /\ max_date[1] = today /\ today < year_end(YEAR)
    /\ reqDates = {} /\ Len(raw) > 1

=============================================================================
